---- MODULE Spec2Model ----
(***************************************************************************)
(* Font cache, font descriptors and the layout/raster engine of plotters   *)
(* (src/style/font/ttf.rs and src/style/font/font_desc.rs).                *)
(*                                                                         *)
(* Spec        : threads that build descriptors (FontDesc::new, which      *)
(*               resolves through load_font_data), derive and use them,    *)
(*               and call clear_font_cache.                                *)
(* SpecResolve : the same threads without clear_font_cache.                *)
(* SpecEngine  : layout_box, box_size and draw applied to inputs drawn     *)
(*               from bounded sets.                                        *)
(***************************************************************************)
EXTENDS Integers, Sequences, FiniteSets, TLC

VARIABLES
  sysfonts,    \* the font-resolution collaborator: face -> what system_fonts::get yields
  cache,       \* FONT_DATA_CACHE mapping: face -> resource id (NoEntry when absent)
  lockHolder,  \* thread holding the FONT_DATA_CACHE mutex, or NoThread
  poisoned,    \* the mutex poison flag
  nextId,      \* identity of the next Pin<Box<OwnedFont>> allocation
  freed,       \* resources that have been dropped
  pc,          \* position of each thread
  arg,         \* arguments of the FontDesc::new call a thread is running
  desc,        \* the FontDesc each thread owns (NoDesc before the first one)
  out,         \* the last descriptor operation / clear_font_cache call and what it returned
  issued,      \* history: every handle load_font_data has returned
  loads,       \* history: face -> number of OwnedFont resources inserted
  queries,     \* history: number of system_fonts::get calls
  lockAcqs,    \* history: number of FONT_DATA_CACHE.lock() calls that returned
  clears,      \* history: number of times clear_font_cache replaced the mapping
  ncalls,      \* number of FontDesc::new / clear_font_cache calls started
  nops,        \* number of descriptor operations performed
  input,       \* SpecEngine: the descriptor, text, origin and callback under test
  output       \* SpecEngine: results of the operations applied to input

vars == <<sysfonts, cache, lockHolder, poisoned, nextId, freed, pc, arg, desc,
          out, issued, loads, queries, lockAcqs, clears, ncalls, nops, input, output>>

cacheVars == <<cache, lockHolder, poisoned, nextId, freed, issued, loads,
               queries, lockAcqs, clears>>

----------------------------------------------------------------------------
(* Bounds *)

MaxCalls == 3      \* FontDesc::new / clear_font_cache calls per behaviour
MaxLen == 2        \* characters in a text
MaxCb == 3         \* callback invocations that may be scheduled to fail
MaxOps == 2        \* descriptor operations (resize, transform, layout, draw) per behaviour

Threads == {"t1", "t2"}
NoThread == "none"
Sizes == {1, 2}
NoEntry == 0

----------------------------------------------------------------------------
(* Values *)

Ok(v) == [ok |-> TRUE, val |-> v]
Err(e) == [ok |-> FALSE, err |-> e]

\* FontError (ttf.rs 19-24)
LockError == "LockError"
NoSuchFont == "NoSuchFont"
FontLoadError == "FontLoadError"
FontError == {LockError, NoSuchFont, FontLoadError}

\* FontTransform (font_desc.rs 14-19)
FontTransform == {"None", "Rotate90", "Rotate180", "Rotate270"}

\* FontFamily (font_desc.rs 55-60)
FontFamily == {[tag |-> "Sans", face |-> ""],
               [tag |-> "Name", face |-> "serif"]}

\* FontFamily::as_str (font_desc.rs 63-70)
as_str(family) ==
  CASE family.tag = "Sans" -> "sans"
    [] family.tag = "SansSerif" -> "sans-serif"
    [] family.tag = "Monospace" -> "monospace"
    [] family.tag = "Name" -> family.face

Faces == {as_str(f) : f \in FontFamily}

\* What system_fonts::get can yield for a face: no match, or a byte buffer that
\* is empty, is not a font, or is a font.
SysAnswers == {"none", "empty", "bad", "ok"}

NoDesc == [none |-> TRUE]
NoOut == [op |-> "none"]
NoArg == [none |-> TRUE]

----------------------------------------------------------------------------
(* The shaping primitive (rusttype), seen through its call sites *)

I32MAX == 2147483647

Min(a, b) == IF a < b THEN a ELSE b
Max(a, b) == IF a > b THEN a ELSE b
Abs(a) == IF a < 0 THEN -a ELSE a

\* Characters of the modelled font: a space, a glyph with a descender, a glyph
\* wholly above the baseline, and a glyph with a negative left side bearing.
Chars == {"sp", "g", "dash", "j"}

Texts == UNION {[1..n -> Chars] : n \in 0..MaxLen}

\* Ink box of a character at size 1, as <<min.x, min.y, max.x, max.y>>
\* relative to its pen position; the baseline is y = 0 and y grows downwards.
UnitBox(c) ==
  CASE c = "g" -> <<0, -1, 1, 1>>
    [] c = "dash" -> <<0, -2, 1, -1>>
    [] c = "j" -> <<-1, -1, 1, 1>>

Advance == 2

NoInk == [ink |-> FALSE]

\* g.pixel_bounding_box() of the i-th glyph (0-based) of a text laid out from
\* point(0, 0) at Scale::uniform(size): None for a glyph without ink.
pixel_bounding_box(c, i, size) ==
  IF c = "sp" THEN NoInk
  ELSE LET u == UnitBox(c) IN
       [ink |-> TRUE,
        min |-> <<(u[1] + Advance * i) * size, u[2] * size>>,
        max |-> <<(u[3] + Advance * i) * size, u[4] * size>>]

\* font.layout(text, scale, point(0.0, 0.0)): the glyphs in text order.
FontLayout(size, text) ==
  [i \in 1..Len(text) |-> pixel_bounding_box(text[i], i - 1, size)]

\* g.draw(|x, y, v| ...): one call per pixel of the glyph's bounding box, with
\* x in 0..width-1 and y in 0..height-1, row by row.
GlyphPixels(rect) ==
  LET w == rect.max[1] - rect.min[1]
      h == rect.max[2] - rect.min[2]
  IN [k \in 1..(w * h) |-> <<(k - 1) % w, (k - 1) \div w>>]

----------------------------------------------------------------------------
(* FontTransform (font_desc.rs 21-42) *)

offsetWidthFirst(trans, layout) ==
  CASE trans = "None" -> <<0, 0>>
    [] trans = "Rotate90" -> <<layout[2][1] - layout[1][1], 0>>
    [] trans = "Rotate180" -> <<layout[2][1] - layout[1][1], layout[2][2] - layout[1][2]>>
    [] trans = "Rotate270" -> <<0, layout[2][2] - layout[1][2]>>

offset(trans, layout) ==
  CASE trans = "None" -> <<0, 0>>
    [] trans = "Rotate90" -> <<layout[2][2] - layout[1][2], 0>>
    [] trans = "Rotate180" -> <<layout[2][1] - layout[1][1], layout[2][2] - layout[1][2]>>
    [] trans = "Rotate270" -> <<0, layout[2][1] - layout[1][1]>>

transformNoRotation(trans, x, y) == <<x, y>>

transform(trans, x, y) ==
  CASE trans = "None" -> <<x, y>>
    [] trans = "Rotate90" -> <<-y, x>>
    [] trans = "Rotate180" -> <<-x, -y>>
    [] trans = "Rotate270" -> <<y, -x>>

----------------------------------------------------------------------------
(* FontDataInternal::estimate_layout (ttf.rs 126-148) *)

\* The closure of lines 134-141: glyphs with ink widen the running box.
AccumulateBox(acc, g) ==
  IF g.ink
  THEN <<<<Min(acc[1][1], g.min[1]), Min(acc[1][2], g.min[2])>>,
         <<Max(acc[2][1], g.max[1]), Max(acc[2][2], g.max[2])>>>>
  ELSE acc

RECURSIVE FoldBoxes(_, _, _)
FoldBoxes(glyphs, i, acc) ==
  IF i > Len(glyphs) THEN acc
  ELSE FoldBoxes(glyphs, i + 1, AccumulateBox(acc, glyphs[i]))

estimate_layoutNoSentinel(size, text) ==
  Ok(FoldBoxes(FontLayout(size, text), 1, <<<<I32MAX, I32MAX>>, <<0, 0>>>>))

estimate_layout(size, text) ==
  LET acc == FoldBoxes(FontLayout(size, text), 1, <<<<I32MAX, I32MAX>>, <<0, 0>>>>)
  IN IF acc[1][1] = I32MAX \/ acc[1][2] = I32MAX
     THEN Ok(<<<<0, 0>>, <<0, 0>>>>)
     ELSE Ok(acc)

----------------------------------------------------------------------------
(* FontDataInternal::draw (ttf.rs 150-181) *)

Unit == "unit"

\* The caller's draw callback: its n-th invocation fails with its own error
\* value when n is in cb, and succeeds otherwise.
Callback(cb, n) == IF n \in cb THEN Err(n) ELSE Ok(Unit)

PixelGuardNoStop(X, Y, result) == X >= 0 /\ Y >= 0

PixelGuardNoClip(X, Y, result) == result.ok

\* line 174
PixelGuard(X, Y, result) == X >= 0 /\ Y >= 0 /\ result.ok

\* The closure of lines 172-177 for the pixel (px, py) of a glyph whose
\* shifted corner is (x0, y0); st is <<result, invocations so far>>.
DrawPixel(st, p, x0, y0, trans, base, cb) ==
  LET q == transform(trans, p[1] + x0, p[2] + y0)
      X == q[1] + base[1]
      Y == q[2] + base[2]
  IN IF PixelGuard(X, Y, st.result)
     THEN LET r == Callback(cb, Len(st.calls) + 1)
          IN [result |-> r, calls |-> Append(st.calls, [x |-> X, y |-> Y, ret |-> r])]
     ELSE st

RECURSIVE DrawGlyph(_, _, _, _, _, _, _, _)
DrawGlyph(st, pixels, k, x0, y0, trans, base, cb) ==
  IF k > Len(pixels) THEN st
  ELSE DrawGlyph(DrawPixel(st, pixels[k], x0, y0, trans, base, cb),
                 pixels, k + 1, x0, y0, trans, base, cb)

\* The loop of lines 168-179.
RECURSIVE DrawGlyphs(_, _, _, _, _, _, _)
DrawGlyphs(st, glyphs, i, layout, trans, base, cb) ==
  IF i > Len(glyphs) THEN st
  ELSE LET g == glyphs[i] IN
       IF g.ink
       THEN DrawGlyphs(DrawGlyph(st, GlyphPixels(g), 1, g.min[1],
                                 g.min[2] - layout[1][2], trans, base, cb),
                       glyphs, i + 1, layout, trans, base, cb)
       ELSE DrawGlyphs(st, glyphs, i + 1, layout, trans, base, cb)

\* Returns the function's value (res) and the callback invocations it made.
FontDataInternal_draw(origin, size, text, trans, cb) ==
  LET l == estimate_layout(size, text) IN
  IF ~l.ok THEN [res |-> l, calls |-> <<>>]
  ELSE LET layout == l.val
           base == <<origin[1] + offset(trans, layout)[1],
                     origin[2] + offset(trans, layout)[2]>>
           st == DrawGlyphs([result |-> Ok(Unit), calls |-> <<>>],
                            FontLayout(size, text), 1, layout, trans, base, cb)
       IN [res |-> Ok(st.result), calls |-> st.calls]

----------------------------------------------------------------------------
(* FontDesc (font_desc.rs 118-201) *)

\* FontDesc::new once FontDataInternal::new(family) has returned data
FontDesc_new(family, size, data) ==
  [size |-> size, family |-> family, data |-> data, transform |-> "None"]

resizeRelative(d, size) ==
  [size |-> d.size * size, family |-> d.family, data |-> d.data, transform |-> d.transform]

resize(d, size) ==
  [size |-> size, family |-> d.family, data |-> d.data, transform |-> d.transform]

FontDesc_transformAsNew(d, trans) ==
  [size |-> 1, family |-> d.family, data |-> d.data, transform |-> trans]

FontDesc_transform(d, trans) ==
  [size |-> d.size, family |-> d.family, data |-> d.data, transform |-> trans]

get_transform(d) == d.transform

layout_boxForgetsError(d, text) ==
  IF d.data.ok THEN estimate_layout(d.size, text) ELSE Err(NoSuchFont)

layout_box(d, text) ==
  IF d.data.ok THEN estimate_layout(d.size, text) ELSE Err(d.data.err)

box_size(d, text) ==
  LET l == layout_box(d, text) IN
  IF ~l.ok THEN l
  ELSE LET wh == transform(get_transform(d), l.val[2][1] - l.val[1][1],
                           l.val[2][2] - l.val[1][2])
       IN Ok(<<Abs(wh[1]), Abs(wh[2])>>)

draw(d, text, origin, cb) ==
  IF d.data.ok
  THEN FontDataInternal_draw(origin, d.size, text, get_transform(d), cb)
  ELSE [res |-> Err(d.data.err), calls |-> <<>>]

----------------------------------------------------------------------------
(* Threads: FontDesc::new -> FontDataInternal::new -> load_font_data *)

\* Inputs of the threads' descriptor operations (SpecEngine ranges over more).
NewSizes == {1}      \* FontDesc::from(&str) and from(FontFamily) pass 1.0
ThreadTexts == {<<"g">>}
ThreadOrigins == {<<0, 0>>}
ThreadCallbacks == {{}}

\* What reading a dropped OwnedFont through a handle can produce: a value of
\* the operation's return type, or the process faulting on the read.
InvalidRead == Err("invalid-read")
UBLayoutBox == {Ok(<<<<0, 0>>, <<0, 0>>>>), InvalidRead}
UBBoxSize == {Ok(<<0, 0>>), InvalidRead}
UBDraw == {Ok(Ok(Unit)), InvalidRead}

Face(t) == as_str(arg[t].family)

\* load_font_data returns data to FontDataInternal::new (ttf.rs 122-124) and
\* FontDesc::new (font_desc.rs 120-127); the MutexGuard is dropped on the way.
Return(t, data) ==
  /\ desc' = [desc EXCEPT ![t] = FontDesc_new(arg[t].family, arg[t].size, data)]
  /\ pc' = [pc EXCEPT ![t] = "idle"]
  /\ arg' = [arg EXCEPT ![t] = NoArg]
  /\ lockHolder' = NoThread

\* FontDesc::new(family, size) is called (font_desc.rs 120-124)
FontDescNew(t) ==
  /\ pc[t] = "idle"
  /\ ncalls < MaxCalls
  /\ \E family \in FontFamily, size \in NewSizes :
       arg' = [arg EXCEPT ![t] = [family |-> family, size |-> size]]
  /\ pc' = [pc EXCEPT ![t] = "lock"]
  /\ ncalls' = ncalls + 1
  /\ UNCHANGED <<nops, sysfonts, cacheVars, desc, out, input, output>>

LockIgnoresPoison(t) ==
  /\ pc[t] = "lock"
  /\ lockHolder = NoThread
  /\ lockAcqs' = lockAcqs + 1
  /\ lockHolder' = t
  /\ pc' = [pc EXCEPT ![t] = "check"]
  /\ UNCHANGED <<desc, arg>>
  /\ UNCHANGED <<nops, sysfonts, cache, poisoned, nextId, freed, issued, loads, queries,
                 clears, out, ncalls, input, output>>

LockNoExclusion(t) ==
  /\ pc[t] = "lock"
  /\ lockAcqs' = lockAcqs + 1
  /\ IF poisoned
     THEN Return(t, Err(LockError))
     ELSE /\ lockHolder' = t
          /\ pc' = [pc EXCEPT ![t] = "check"]
          /\ UNCHANGED <<desc, arg>>
  /\ UNCHANGED <<nops, sysfonts, cache, poisoned, nextId, freed, issued, loads, queries,
                 clears, out, ncalls, input, output>>

\* FONT_DATA_CACHE.lock() (ttf.rs 85, 101-102): blocks while another thread
\* holds the mutex; on a poisoned mutex it yields Err and the call returns
\* LockError.
Lock(t) ==
  /\ pc[t] = "lock"
  /\ lockHolder = NoThread
  /\ lockAcqs' = lockAcqs + 1
  /\ IF poisoned
     THEN Return(t, Err(LockError))
     ELSE /\ lockHolder' = t
          /\ pc' = [pc EXCEPT ![t] = "check"]
          /\ UNCHANGED <<desc, arg>>
  /\ UNCHANGED <<nops, sysfonts, cache, poisoned, nextId, freed, issued, loads, queries,
                 clears, out, ncalls, input, output>>

ContainsKeyAlwaysMiss(t) ==
  /\ pc[t] = "check"
  /\ pc' = [pc EXCEPT ![t] = "query"]
  /\ UNCHANGED <<nops, sysfonts, cacheVars, arg, desc, out, ncalls, input, output>>

\* if !cache.contains_key(face) (ttf.rs 86)
ContainsKey(t) ==
  /\ pc[t] = "check"
  /\ pc' = [pc EXCEPT ![t] = IF cache[Face(t)] # NoEntry THEN "get" ELSE "query"]
  /\ UNCHANGED <<nops, sysfonts, cacheVars, arg, desc, out, ncalls, input, output>>

\* system_fonts::get(&query) (ttf.rs 87-88, 92-94)
SystemFontsGet(t) ==
  /\ pc[t] = "query"
  /\ queries' = queries + 1
  /\ IF sysfonts[Face(t)] = "none"
     THEN Return(t, Err(NoSuchFont))
     ELSE /\ pc' = [pc EXCEPT ![t] = "parse"]
          /\ UNCHANGED <<desc, arg, lockHolder>>
  /\ UNCHANGED <<nops, sysfonts, cache, poisoned, nextId, freed, issued, loads,
                 lockAcqs, clears, out, ncalls, input, output>>

OwnedFontNewInsertsFirst(t) ==
  /\ pc[t] = "parse"
  /\ CASE sysfonts[Face(t)] = "empty" ->
            /\ poisoned' = TRUE
            /\ lockHolder' = NoThread
            /\ pc' = [pc EXCEPT ![t] = "panicked"]
            /\ arg' = [arg EXCEPT ![t] = NoArg]
            /\ UNCHANGED <<cache, nextId, freed, loads, desc>>
       [] sysfonts[Face(t)] = "bad" ->
            /\ cache' = [cache EXCEPT ![Face(t)] = nextId]
            /\ nextId' = nextId + 1
            /\ Return(t, Err(FontLoadError))
            /\ UNCHANGED <<freed, loads, poisoned>>
       [] sysfonts[Face(t)] = "ok" ->
            /\ cache' = [cache EXCEPT ![Face(t)] = nextId]
            /\ freed' = freed \cup ({cache[Face(t)]} \ {NoEntry})
            /\ nextId' = nextId + 1
            /\ loads' = [loads EXCEPT ![Face(t)] = @ + 1]
            /\ pc' = [pc EXCEPT ![t] = "get"]
            /\ UNCHANGED <<poisoned, lockHolder, arg, desc>>
  /\ UNCHANGED <<nops, sysfonts, issued, queries, lockAcqs, clears, out, ncalls,
                 input, output>>

\* OwnedFont::new(data) and cache.insert (ttf.rs 45-63, 89-91).  An empty
\* buffer makes &data[0] panic while the guard is alive: the unwinding drops
\* the guard, which poisons the mutex, and ends the thread.
OwnedFontNew(t) ==
  /\ pc[t] = "parse"
  /\ CASE sysfonts[Face(t)] = "empty" ->
            /\ poisoned' = TRUE
            /\ lockHolder' = NoThread
            /\ pc' = [pc EXCEPT ![t] = "panicked"]
            /\ arg' = [arg EXCEPT ![t] = NoArg]
            /\ UNCHANGED <<cache, nextId, freed, loads, desc>>
       [] sysfonts[Face(t)] = "bad" ->
            /\ Return(t, Err(FontLoadError))
            /\ UNCHANGED <<cache, nextId, freed, loads, poisoned>>
       [] sysfonts[Face(t)] = "ok" ->
            /\ cache' = [cache EXCEPT ![Face(t)] = nextId]
            /\ freed' = freed \cup ({cache[Face(t)]} \ {NoEntry})
            /\ nextId' = nextId + 1
            /\ loads' = [loads EXCEPT ![Face(t)] = @ + 1]
            /\ pc' = [pc EXCEPT ![t] = "get"]
            /\ UNCHANGED <<poisoned, lockHolder, arg, desc>>
  /\ UNCHANGED <<nops, sysfonts, issued, queries, lockAcqs, clears, out, ncalls,
                 input, output>>

\* cache.get(face).unwrap() turned into a &'static Font (ttf.rs 96-99)
GetRef(t) ==
  /\ pc[t] = "get"
  /\ issued' = issued \cup {[face |-> Face(t), id |-> cache[Face(t)],
                             epoch |-> clears, by |-> t]}
  /\ Return(t, Ok(cache[Face(t)]))
  /\ UNCHANGED <<nops, sysfonts, cache, poisoned, nextId, freed, loads, queries,
                 lockAcqs, clears, out, ncalls, input, output>>

clear_font_cacheReportsOk(t) ==
  /\ pc[t] = "idle"
  /\ ncalls < MaxCalls
  /\ lockHolder = NoThread
  /\ ncalls' = ncalls + 1
  /\ lockAcqs' = lockAcqs + 1
  /\ IF ~poisoned
     THEN /\ cache' = [f \in Faces |-> NoEntry]
          /\ freed' = freed \cup ({cache[f] : f \in Faces} \ {NoEntry})
          /\ clears' = clears + 1
     ELSE UNCHANGED <<cache, freed, clears>>
  /\ out' = [op |-> "clear_font_cache", by |-> t,
             res |-> IF poisoned THEN Err(LockError) ELSE Ok(0), ncb |-> 0]
  /\ UNCHANGED <<nops, sysfonts, lockHolder, poisoned, nextId, issued, loads, queries,
                 pc, arg, desc, input, output>>

\* clear_font_cache (ttf.rs 109-114)
clear_font_cache(t) ==
  /\ pc[t] = "idle"
  /\ ncalls < MaxCalls
  /\ lockHolder = NoThread
  /\ ncalls' = ncalls + 1
  /\ lockAcqs' = lockAcqs + 1
  /\ IF ~poisoned
     THEN /\ cache' = [f \in Faces |-> NoEntry]
          /\ freed' = freed \cup ({cache[f] : f \in Faces} \ {NoEntry})
          /\ clears' = clears + 1
     ELSE UNCHANGED <<cache, freed, clears>>
  /\ out' = [op |-> "clear_font_cache", by |-> t, res |-> Err(LockError), ncb |-> 0]
  /\ UNCHANGED <<nops, sysfonts, lockHolder, poisoned, nextId, issued, loads, queries,
                 pc, arg, desc, input, output>>

----------------------------------------------------------------------------
(* Threads: operations on the descriptor they own *)

HasDesc(t) == pc[t] = "idle" /\ desc[t] # NoDesc
Dangling(d) == d.data.ok /\ d.data.val \in freed

\* FontDesc::resize (font_desc.rs 130-137)
Resize(t) ==
  /\ HasDesc(t)
  /\ nops < MaxOps
  /\ nops' = nops + 1
  /\ \E size \in Sizes : desc' = [desc EXCEPT ![t] = resize(desc[t], size)]
  /\ UNCHANGED <<sysfonts, cacheVars, pc, arg, out, ncalls, input, output>>

\* FontDesc::transform (font_desc.rs 140-147)
Transform(t) ==
  /\ HasDesc(t)
  /\ nops < MaxOps
  /\ nops' = nops + 1
  /\ \E trans \in FontTransform :
       desc' = [desc EXCEPT ![t] = FontDesc_transform(desc[t], trans)]
  /\ UNCHANGED <<sysfonts, cacheVars, pc, arg, out, ncalls, input, output>>

\* FontDesc::layout_box (font_desc.rs 173-178)
LayoutBox(t) ==
  /\ HasDesc(t)
  /\ nops < MaxOps
  /\ nops' = nops + 1
  /\ \E text \in ThreadTexts :
       \E r \in IF Dangling(desc[t]) THEN UBLayoutBox ELSE {layout_box(desc[t], text)} :
         out' = [op |-> "layout_box", by |-> t, res |-> r, ncb |-> 0]
  /\ UNCHANGED <<sysfonts, cacheVars, pc, arg, desc, ncalls, input, output>>

\* FontDesc::box_size (font_desc.rs 183-187)
BoxSize(t) ==
  /\ HasDesc(t)
  /\ nops < MaxOps
  /\ nops' = nops + 1
  /\ \E text \in ThreadTexts :
       \E r \in IF Dangling(desc[t]) THEN UBBoxSize ELSE {box_size(desc[t], text)} :
         out' = [op |-> "box_size", by |-> t, res |-> r, ncb |-> 0]
  /\ UNCHANGED <<sysfonts, cacheVars, pc, arg, desc, ncalls, input, output>>

\* FontDesc::draw (font_desc.rs 190-200)
Draw(t) ==
  /\ HasDesc(t)
  /\ nops < MaxOps
  /\ nops' = nops + 1
  /\ \E text \in ThreadTexts, origin \in ThreadOrigins, cb \in ThreadCallbacks :
       IF Dangling(desc[t])
       THEN \E r \in UBDraw :
              out' = [op |-> "draw", by |-> t, res |-> r, ncb |-> IF r.ok THEN 1 ELSE 0]
       ELSE LET r == draw(desc[t], text, origin, cb)
            IN out' = [op |-> "draw", by |-> t, res |-> r.res, ncb |-> Len(r.calls)]
  /\ UNCHANGED <<sysfonts, cacheVars, pc, arg, desc, ncalls, input, output>>

----------------------------------------------------------------------------
(* Specifications of the cache and its threads *)

NoInput == [none |-> TRUE]

\* The collaborator's answers are fixed for a run; "sans" ranges over all of
\* them and "serif" is either missing or a font.
SysConfigs ==
  {c \in [Faces -> SysAnswers] : c["serif"] \in {"none", "ok"}}

Init ==
  /\ sysfonts \in SysConfigs
  /\ cache = [f \in Faces |-> NoEntry]
  /\ lockHolder = NoThread
  /\ poisoned = FALSE
  /\ nextId = 1
  /\ freed = {}
  /\ pc = [t \in Threads |-> "idle"]
  /\ arg = [t \in Threads |-> NoArg]
  /\ desc = [t \in Threads |-> NoDesc]
  /\ out = NoOut
  /\ issued = {}
  /\ loads = [f \in Faces |-> 0]
  /\ queries = 0
  /\ lockAcqs = 0
  /\ clears = 0
  /\ ncalls = 0
  /\ nops = 0
  /\ input = NoInput
  /\ output = NoOut

NextResolve ==
  \E t \in Threads :
    \/ FontDescNew(t)
    \/ Lock(t)
    \/ ContainsKey(t)
    \/ SystemFontsGet(t)
    \/ OwnedFontNew(t)
    \/ GetRef(t)
    \/ Resize(t)
    \/ Transform(t)
    \/ LayoutBox(t)
    \/ BoxSize(t)
    \/ Draw(t)

Next ==
  \/ NextResolve
  \/ \E t \in Threads : clear_font_cache(t)

Spec == Init /\ [][Next]_vars

SpecResolve == Init /\ [][NextResolve]_vars

\* Concurrent calls of FontDesc::new only (load_font_data, ttf.rs 84-104).
NextLive ==
  \E t \in Threads :
    \/ FontDescNew(t)
    \/ Lock(t)
    \/ ContainsKey(t)
    \/ SystemFontsGet(t)
    \/ OwnedFontNew(t)
    \/ GetRef(t)

\* Fair scheduling: a thread inside the locked closure keeps running, and a
\* thread blocked in lock() gets the mutex if it is free again and again.
FairThreads ==
  \A t \in Threads :
    /\ SF_vars(Lock(t))
    /\ WF_vars(ContainsKey(t) \/ SystemFontsGet(t) \/ OwnedFontNew(t) \/ GetRef(t))

SpecLive == Init /\ [][NextLive]_vars /\ FairThreads

----------------------------------------------------------------------------
(* Specification of the layout/raster engine: one descriptor, already       *)
(* built, and the operations FontDesc offers on it, on inputs drawn from    *)
(* bounded sets.                                                            *)

Origins == {<<x, y>> : x \in {-2, 0, 3}, y \in {-2, 0, 3}}
\* Callbacks that fail on at most two of their first MaxCb invocations.
CbPlans == {cb \in SUBSET (1..MaxCb) : Cardinality(cb) <= 2}

Sans == [tag |-> "Sans", face |-> ""]
Serif == [tag |-> "Name", face |-> "serif"]

\* Descriptors a thread can hold after FontDesc::new, resize and transform
\* when "sans" resolved to resource 1 and "serif" has no match.
EngineDescs ==
  {FontDesc_transform(resize(d, size), trans) :
     d \in {FontDesc_new(Sans, 1, Ok(1)), FontDesc_new(Serif, 1, Err(NoSuchFont))},
     size \in Sizes, trans \in FontTransform}

InitEngine ==
  /\ sysfonts = [f \in Faces |-> IF f = "sans" THEN "ok" ELSE "none"]
  /\ cache = [f \in Faces |-> IF f = "sans" THEN 1 ELSE NoEntry]
  /\ lockHolder = NoThread
  /\ poisoned = FALSE
  /\ nextId = 2
  /\ freed = {}
  /\ pc = [t \in Threads |-> "idle"]
  /\ arg = [t \in Threads |-> NoArg]
  /\ desc = [t \in Threads |-> NoDesc]
  /\ out = NoOut
  /\ issued = {[face |-> "sans", id |-> 1, epoch |-> 0, by |-> "t1"]}
  /\ loads = [f \in Faces |-> IF f = "sans" THEN 1 ELSE 0]
  /\ queries = 2
  /\ lockAcqs = 2
  /\ clears = 0
  /\ ncalls = 2
  /\ nops = 0
  /\ input \in [desc : EngineDescs, text : Texts, origin : Origins, cb : CbPlans]
  /\ output = NoOut

engineFrame ==
  UNCHANGED <<sysfonts, cacheVars, pc, arg, desc, out, ncalls, nops, input>>

\* FontDesc::layout_box (font_desc.rs 173-178)
EngineLayoutBox ==
  /\ output' = [op |-> "layout_box", res |-> layout_box(input.desc, input.text),
                calls |-> <<>>]
  /\ engineFrame

\* FontDesc::box_size (font_desc.rs 183-187)
EngineBoxSize ==
  /\ output' = [op |-> "box_size", res |-> box_size(input.desc, input.text),
                calls |-> <<>>]
  /\ engineFrame

\* FontDesc::draw (font_desc.rs 190-200)
EngineDraw ==
  /\ LET r == draw(input.desc, input.text, input.origin, input.cb)
     IN output' = [op |-> "draw", res |-> r.res, calls |-> r.calls]
  /\ engineFrame

\* FontTransform::transform and FontTransform::offset (font_desc.rs 24-41),
\* applied to the point input.origin and to the layout of input.text.
EngineTransform ==
  /\ LET layout == estimate_layout(input.desc.size, input.text).val
         t == input.desc.transform
     IN output' = [op |-> "transform",
                   res |-> Ok(<<transform(t, input.origin[1], input.origin[2]),
                                offset(t, layout)>>),
                   calls |-> <<>>]
  /\ engineFrame

\* d.resize(other).resize(d.size).layout_box(text) (font_desc.rs 130-137, 173-178)
EngineResizeBack ==
  /\ \E other \in Sizes \ {input.desc.size} :
       output' = [op |-> "resize_back",
                  res |-> layout_box(resize(resize(input.desc, other), input.desc.size),
                                     input.text),
                  calls |-> <<>>]
  /\ engineFrame

NextEngine ==
  \/ EngineLayoutBox
  \/ EngineBoxSize
  \/ EngineDraw
  \/ EngineTransform
  \/ EngineResizeBack

SpecEngine == InitEngine /\ [][NextEngine]_vars

----------------------------------------------------------------------------
(* Properties of the cache (Spec, SpecResolve) *)

\* C1 (as stated): any two handles load_font_data has returned for the same
\* family name reference the same font resource.
SameFamilySameResource ==
  \A h1, h2 \in issued : h1.face = h2.face => h1.id = h2.id

\* C1 (amended): two handles returned for the same family name reference the
\* same font resource when clear_font_cache has not replaced the mapping
\* between the two calls.
SameFamilySameResourceUntilCleared ==
  \A h1, h2 \in issued :
    (h1.face = h2.face /\ h1.epoch = h2.epoch) => h1.id = h2.id

\* Two threads have resolved the same family with no clear in between.
TwoThreadsResolvedSameFamily ==
  \E h1, h2 \in issued :
    h1.by # h2.by /\ h1.face = h2.face /\ h1.epoch = h2.epoch

\* C2: without clear_font_cache, no family is ever loaded twice: once the
\* mapping holds an entry for a family, no step inserts a resource or queries
\* the collaborator for it again, and the entry stays the one that was loaded.
AtMostOneLoadPerFamily ==
  /\ [](\A f \in Faces : loads[f] <= 1)
  /\ [][\A f \in Faces :
          cache[f] # NoEntry =>
            /\ loads'[f] = loads[f]
            /\ cache'[f] = cache[f]
            /\ \A t \in Threads :
                 (pc[t] = "check" /\ Face(t) = f) => pc'[t] \in {"check", "get"}]_vars

\* A thread is about to return the entry another thread loaded.
SecondResolveSeesCachedEntry ==
  \E t \in Threads :
    /\ pc[t] = "get"
    /\ loads[Face(t)] = 1
    /\ \E h \in issued : h.face = Face(t) /\ h.by # t /\ h.id = cache[Face(t)]

\* C3 (as stated): every handle ever issued still refers to a resource that
\* is present in the cache and has not been dropped.
IssuedHandlesStayCached ==
  \A h \in issued : cache[h.face] = h.id /\ h.id \notin freed

\* C3 (amended): every step that is not a clear_font_cache replacing the
\* mapping keeps every published entry and drops no resource, so handles
\* issued since the last such clear refer to resources present in the cache.
AppendOnlyExceptClear ==
  /\ [][clears' = clears =>
          /\ \A f \in Faces : cache[f] # NoEntry => cache'[f] = cache[f]
          /\ freed' = freed]_vars
  /\ [](\A h \in issued :
          h.epoch = clears => (cache[h.face] = h.id /\ h.id \notin freed))

\* A handle is still backed by its entry after its owner drew with it and
\* other calls were made.
HandleUsedWhileCached ==
  \E h \in issued :
    /\ cache[h.face] = h.id
    /\ clears = 0
    /\ out.op = "draw" /\ out.by = h.by /\ out.res.ok
    /\ ncalls >= 2

\* C4: a descriptor built for a family the collaborator has no match for
\* holds NoSuchFont.
UnknownFamilyIsNoSuchFont ==
  \A t \in Threads :
    (desc[t] # NoDesc /\ sysfonts[as_str(desc[t].family)] = "none")
      => desc[t].data = Err(NoSuchFont)

\* C5: on a descriptor holding a resolution error, resize and transform keep
\* that error, and layout_box, box_size and draw return it, invoke no
\* callback, and touch neither the lock, the mapping nor the collaborator.
StoredErrorIsReplayed ==
  [][\A t \in Threads :
       (HasDesc(t) /\ ~desc[t].data.ok) =>
         /\ (Resize(t) \/ Transform(t)) =>
              /\ desc'[t].data = desc[t].data
              /\ queries' = queries /\ lockAcqs' = lockAcqs /\ cache' = cache
         /\ (LayoutBox(t) \/ BoxSize(t) \/ Draw(t)) =>
              /\ out'.res = desc[t].data
              /\ out'.ncb = 0
              /\ queries' = queries /\ lockAcqs' = lockAcqs /\ cache' = cache]_vars

\* A descriptor derived by transform from a failed one has replayed the error
\* from draw.
FailedDescriptorDrew ==
  /\ out.op = "draw"
  /\ ~desc[out.by].data.ok
  /\ desc[out.by].transform = "Rotate90"
  /\ out.res = desc[out.by].data
  /\ queries = 1

----------------------------------------------------------------------------
(* Properties of the engine (SpecEngine) *)

Inked == {i \in 1..Len(input.text) : FontLayout(input.desc.size, input.text)[i].ink}

TotalPixels ==
  LET glyphs == FontLayout(input.desc.size, input.text)
      RECURSIVE Sum(_)
      Sum(i) == IF i > Len(glyphs) THEN 0
                ELSE (IF glyphs[i].ink THEN Len(GlyphPixels(glyphs[i])) ELSE 0) + Sum(i + 1)
  IN Sum(1)

SetMin(S) == CHOOSE x \in S : \A y \in S : x <= y
SetMax(S) == CHOOSE x \in S : \A y \in S : x >= y

\* C6: in one draw, only the last callback invocation can have failed; the
\* inner result is that failure (the first one the callback was due to
\* produce), and Ok when no invocation failed.
DrawStopsAtFirstFailure ==
  (output.op = "draw" /\ output.res.ok) =>
    LET calls == output.calls
        failing == {i \in 1..Len(calls) : ~calls[i].ret.ok}
    IN /\ \A i \in failing : i = Len(calls)
       /\ failing = {} => output.res.val = Ok(Unit)
       /\ failing # {} =>
            /\ output.res.val = calls[SetMin(failing)].ret
            /\ output.res.val = Err(SetMin(input.cb))
            /\ Len(calls) = SetMin(input.cb)

\* The callback failed on its first invocation while pixels of two inked
\* glyphs, all at positive coordinates, were still to come.
DrawFailedEarly ==
  /\ output.op = "draw" /\ output.res.ok /\ ~output.res.val.ok
  /\ Len(output.calls) = 1
  /\ Cardinality(Inked) = 2
  /\ input.origin = <<3, 3>> /\ input.desc.transform = "None"

\* C7: draw never passes a negative x or y to the callback.
DrawNeverNegative ==
  output.op = "draw" =>
    \A i \in 1..Len(output.calls) : output.calls[i].x >= 0 /\ output.calls[i].y >= 0

\* A draw from a negative origin whose callback never failed delivered some
\* pixels and skipped others.
DrawSkippedNegativePixels ==
  /\ output.op = "draw" /\ output.res.ok /\ output.res.val.ok
  /\ input.cb = {}
  /\ input.origin[1] < 0
  /\ Len(output.calls) > 0 /\ Len(output.calls) < TotalPixels

\* C8: box_size returns (h, w) under Rotate90 and Rotate270 and (w, h) under
\* None and Rotate180, w and h being the non-negative extents of layout_box.
BoxSizeSwapsOnQuarterTurns ==
  (output.op = "box_size" /\ input.desc.data.ok) =>
    LET l == layout_box(input.desc, input.text).val
        w == l[2][1] - l[1][1]
        h == l[2][2] - l[1][2]
    IN /\ w >= 0 /\ h >= 0
       /\ output.res = Ok(IF input.desc.transform \in {"Rotate90", "Rotate270"}
                          THEN <<h, w>> ELSE <<w, h>>)

\* box_size of a rotated text that is not square.
BoxSizeRotatedNonSquare ==
  /\ output.op = "box_size" /\ output.res.ok
  /\ input.desc.transform = "Rotate90"
  /\ output.res.val[1] > output.res.val[2]

\* C9: layout_box of a text in which no glyph has ink (the empty text
\* included) is Ok(((0,0),(0,0))) on a resolved descriptor.
NoInkLayoutIsDegenerate ==
  (output.op = "layout_box" /\ input.desc.data.ok /\ Inked = {}) =>
    output.res = Ok(<<<<0, 0>>, <<0, 0>>>>)

\* layout_box of a non-empty text made of spaces.
LayoutOfSpaces ==
  /\ output.op = "layout_box" /\ output.res.ok
  /\ input.desc.data.ok
  /\ Len(input.text) > 0 /\ Inked = {}

\* C10: when some glyph has ink, layout_box is the componentwise minimum of
\* the inked glyphs' box minima and maximum of their box maxima.
LayoutIsMinimalEnclosingBox ==
  (output.op = "layout_box" /\ input.desc.data.ok /\ Inked # {}) =>
    LET glyphs == FontLayout(input.desc.size, input.text)
    IN output.res =
         Ok(<<<<SetMin({glyphs[i].min[1] : i \in Inked}),
                SetMin({glyphs[i].min[2] : i \in Inked})>>,
              <<SetMax({glyphs[i].max[1] : i \in Inked}),
                SetMax({glyphs[i].max[2] : i \in Inked})>>>>)

\* C11: transform is the identity for None, (x,y) -> (-y,x) for Rotate90,
\* (x,y) -> (-x,-y) for Rotate180 and (x,y) -> (y,-x) for Rotate270; offset is
\* (0,0), (height,0), (width,height) and (0,width) in that order, width and
\* height being the extents of the layout box.
TransformMapsAsSpecified ==
  output.op = "transform" =>
    LET l == layout_box([input.desc EXCEPT !.data = Ok(1)], input.text).val
        width == l[2][1] - l[1][1]
        height == l[2][2] - l[1][2]
        x == input.origin[1]
        y == input.origin[2]
        t == input.desc.transform
    IN output.res =
         Ok(CASE t = "None" -> <<<<x, y>>, <<0, 0>>>>
              [] t = "Rotate90" -> <<<<-y, x>>, <<height, 0>>>>
              [] t = "Rotate180" -> <<<<-x, -y>>, <<width, height>>>>
              [] t = "Rotate270" -> <<<<y, -x>>, <<0, width>>>>)

\* Rotate270 applied to a point off the axes and to a box that is not square.
Rotate270Applied ==
  /\ output.op = "transform"
  /\ input.desc.transform = "Rotate270"
  /\ input.origin = <<3, -2>>
  /\ output.res.val[2][2] > 0
  /\ LET l == estimate_layout(input.desc.size, input.text).val
     IN l[2][1] - l[1][1] # l[2][2] - l[1][2]

\* C12: resizing a descriptor to another size and back gives the layout_box
\* result (box or stored error) of the original descriptor.
ResizeBackSameLayout ==
  output.op = "resize_back" => output.res = layout_box(input.desc, input.text)

\* The round trip on a resolved descriptor and a text with ink.
ResizedBackWithInk ==
  /\ output.op = "resize_back"
  /\ output.res.ok
  /\ Inked # {}
  /\ input.desc.size = 2

----------------------------------------------------------------------------
(* FontFamily conversions on their own (font_desc.rs 54-82) *)

SansSerif == [tag |-> "SansSerif", face |-> ""]
Monospace == [tag |-> "Monospace", face |-> ""]
Name(face) == [tag |-> "Name", face |-> face]

\* The string literals matched by From<&str> (font_desc.rs 76-78)
CanonicalNames == {"sans", "sans-serif", "monospace"}

\* Strings a caller may pass, and every family value built from them.
FamilyNames == CanonicalNames \cup {"serif", "arial", "Sans", ""}
AllFamilies == {Sans, SansSerif, Monospace} \cup {Name(s) : s \in FamilyNames}

FontFamily_fromAlwaysName(from) == Name(from)

\* impl From<&str> for FontFamily (font_desc.rs 73-82)
FontFamily_from(from) ==
  CASE from = "sans" -> Sans
    [] from = "sans-serif" -> SansSerif
    [] from = "monospace" -> Monospace
    [] OTHER -> Name(from)

InitFamily ==
  /\ sysfonts = [f \in Faces |-> "none"]
  /\ cache = [f \in Faces |-> NoEntry]
  /\ lockHolder = NoThread
  /\ poisoned = FALSE
  /\ nextId = 1
  /\ freed = {}
  /\ pc = [t \in Threads |-> "idle"]
  /\ arg = [t \in Threads |-> NoArg]
  /\ desc = [t \in Threads |-> NoDesc]
  /\ out = NoOut
  /\ issued = {}
  /\ loads = [f \in Faces |-> 0]
  /\ queries = 0
  /\ lockAcqs = 0
  /\ clears = 0
  /\ ncalls = 0
  /\ nops = 0
  /\ input \in [name : FamilyNames, family : AllFamilies]
  /\ output = NoOut

\* FontFamily::from(name)
FamilyFrom ==
  /\ output' = [op |-> "from", res |-> FontFamily_from(input.name)]
  /\ engineFrame

\* family.as_str()
FamilyAsStr ==
  /\ output' = [op |-> "as_str", res |-> as_str(input.family)]
  /\ engineFrame

\* FontFamily::from(name).as_str()
FamilyFromAsStr ==
  /\ output' = [op |-> "from_as_str", res |-> as_str(FontFamily_from(input.name))]
  /\ engineFrame

\* FontFamily::from(family.as_str())
FamilyAsStrFrom ==
  /\ output' = [op |-> "as_str_from", res |-> FontFamily_from(as_str(input.family))]
  /\ engineFrame

NextFamily ==
  \/ FamilyFrom
  \/ FamilyAsStr
  \/ FamilyFromAsStr
  \/ FamilyAsStrFrom

SpecFamily == InitFamily /\ [][NextFamily]_vars

----------------------------------------------------------------------------
(* Further properties of the cache and its threads *)

\* What resize and transform must leave alone outside the descriptor of t.
DerivationFrame(t) ==
  /\ cache' = cache /\ freed' = freed
  /\ lockHolder' = lockHolder /\ poisoned' = poisoned /\ lockAcqs' = lockAcqs
  /\ queries' = queries
  /\ \A u \in Threads \ {t} : desc'[u] = desc[u]

\* C13: resize changes only the size and transform only the transform of the
\* descriptor it returns (same family, same handle or stored error), and
\* neither touches the lock, the mapping, the collaborator or any other
\* descriptor.
DerivationChangesOneField ==
  [][\A t \in Threads :
       /\ Resize(t) =>
            /\ desc'[t].family = desc[t].family
            /\ desc'[t].data = desc[t].data
            /\ desc'[t].transform = desc[t].transform
            /\ desc'[t].size \in Sizes
            /\ DerivationFrame(t)
       /\ Transform(t) =>
            /\ desc'[t].family = desc[t].family
            /\ desc'[t].data = desc[t].data
            /\ desc'[t].size = desc[t].size
            /\ desc'[t].transform \in FontTransform
            /\ DerivationFrame(t)]_vars

\* A resolved descriptor that was resized and then rotated.
ResizedThenRotated ==
  \E t \in Threads :
    /\ HasDesc(t) /\ desc[t].data.ok
    /\ desc[t].size = 2 /\ desc[t].transform = "Rotate180"
    /\ nops = 2

\* C14: a resolve that finds the lock poisoned returns LockError without
\* querying the collaborator or changing the mapping; and while the lock is
\* poisoned no entry is removed and no resource dropped, so handles issued
\* before stay backed by their resources.
PoisonedLockFailsLocally ==
  /\ [][\A t \in Threads :
          (pc[t] = "lock" /\ poisoned /\ pc'[t] # pc[t]) =>
            /\ pc'[t] = "idle"
            /\ desc'[t].data = Err(LockError)
            /\ queries' = queries /\ loads' = loads
            /\ cache' = cache /\ freed' = freed /\ issued' = issued
            /\ lockHolder' = NoThread]_vars
  /\ [][poisoned => (poisoned' /\ cache' = cache /\ freed' = freed)]_vars

\* A resolve has failed with LockError while a handle issued before the
\* poisoning is still backed by its cache entry.
LockErrorWithLiveHandle ==
  /\ poisoned
  /\ \E t \in Threads : HasDesc(t) /\ desc[t].data = Err(LockError)
  /\ \E h \in issued : cache[h.face] = h.id /\ h.id \notin freed

\* C15: no resolve panics under the lock: the lock is never poisoned, no
\* thread has unwound out of a resolve, and no descriptor holds LockError.
ResolveNeverPoisons ==
  /\ ~poisoned
  /\ \A t \in Threads :
       /\ pc[t] # "panicked"
       /\ desc[t] # NoDesc => desc[t].data # Err(LockError)

\* A step of clear_font_cache: a call is counted and no thread moves.
ClearStep == ncalls' = ncalls + 1 /\ pc' = pc

\* C16: clear_font_cache returns LockError on every call; it empties the
\* mapping when it acquired the lock and leaves it unchanged when the lock was
\* poisoned.
ClearAlwaysReportsLockError ==
  [][ClearStep =>
       /\ out'.op = "clear_font_cache"
       /\ out'.res = Err(LockError)
       /\ ~poisoned => cache' = [f \in Faces |-> NoEntry]
       /\ poisoned => cache' = cache]_vars

\* clear_font_cache has emptied a mapping that held an entry, and reported
\* LockError.
ClearedNonEmptyCache ==
  /\ out.op = "clear_font_cache" /\ out.res = Err(LockError)
  /\ ~poisoned
  /\ clears > 0 /\ freed # {}
  /\ \A f \in Faces : cache[f] = NoEntry

\* C17: a resolve that returns NoSuchFont or FontLoadError leaves the mapping
\* as it was, with no entry for the failed family; no entry ever exists for a
\* family that cannot be loaded, and a resolve that finds no entry always
\* queries the collaborator.
FailedResolveLeavesCache ==
  /\ [][\A t \in Threads :
          /\ (pc[t] \in {"query", "parse"} /\ pc'[t] = "idle") =>
               /\ desc'[t].data \in {Err(NoSuchFont), Err(FontLoadError)}
               /\ cache' = cache /\ freed' = freed /\ nextId' = nextId
               /\ cache[as_str(desc'[t].family)] = NoEntry
          /\ (pc[t] = "check" /\ cache[Face(t)] = NoEntry /\ pc'[t] # pc[t]) =>
               pc'[t] = "query"
          /\ (pc[t] = "query" /\ pc'[t] # pc[t]) => queries' = queries + 1]_vars
  /\ [](\A f \in Faces : cache[f] # NoEntry => sysfonts[f] = "ok")

\* The same family was resolved twice, failed with FontLoadError both times
\* and was looked up in the system fonts both times.
FailedFamilyQueriedTwice ==
  /\ sysfonts["sans"] = "bad"
  /\ \A t \in Threads : /\ pc[t] = "idle" /\ desc[t] # NoDesc
                        /\ desc[t].family = Sans
                        /\ desc[t].data = Err(FontLoadError)
  /\ queries = 2 /\ ncalls = 2
  /\ cache["sans"] = NoEntry

\* C18: under fair scheduling every call of resolve that has started
\* eventually returns to its caller.
EveryResolveReturns ==
  \A t \in Threads : (pc[t] = "lock") ~> (pc[t] = "idle")

\* C19: from a non-negative origin, every coordinate draw hands to the
\* callback lies in the rectangle of size box_size(text) anchored at the
\* origin.
DrawStaysInBox ==
  (/\ output.op = "draw" /\ input.desc.data.ok
   /\ input.origin[1] >= 0 /\ input.origin[2] >= 0) =>
    LET size == box_size(input.desc, input.text).val
    IN \A i \in 1..Len(output.calls) :
         /\ input.origin[1] <= output.calls[i].x
         /\ output.calls[i].x <= input.origin[1] + size[1]
         /\ input.origin[2] <= output.calls[i].y
         /\ output.calls[i].y <= input.origin[2] + size[2]

\* C20 as stated: from(s).as_str() is s for every string s, and
\* from(f.as_str()) is the same variant as f for every family f.
FamilyRoundTripBothWays ==
  /\ output.op = "from_as_str" => output.res = input.name
  /\ output.op = "as_str_from" => output.res.tag = input.family.tag

\* C20 amended: from(s).as_str() is s for every string s; from(f.as_str())
\* has the same name as f, and is f itself unless f is Name holding "sans",
\* "sans-serif" or "monospace", which comes back as the built-in variant.
FamilyRoundTripUpToCanonical ==
  /\ output.op = "from_as_str" => output.res = input.name
  /\ output.op = "as_str_from" =>
       /\ as_str(output.res) = as_str(input.family)
       /\ IF input.family.tag = "Name" /\ input.family.face \in CanonicalNames
          THEN output.res \in {Sans, SansSerif, Monospace}
          ELSE output.res = input.family

\* Name("sans") went through as_str and from and came back as Sans.
NamedSansCameBackBuiltIn ==
  /\ output.op = "as_str_from"
  /\ input.family = Name("sans")
  /\ output.res = Sans
====
